---- MODULE Spec2Model ----
(***************************************************************************)
(* Catalog synchronisation scripts of shopify_management.                  *)
(*                                                                         *)
(* Part I   inventory_master_sync.py: main() run repeatedly against a      *)
(*          persistent ledger (product_inventory.json) and a destination   *)
(*          shop.  One action per way one iteration of the item loop can   *)
(*          go; the remote calls of an iteration are recorded in `calls`.  *)
(*          Left out: skips_count and the progress prints, the prompt and  *)
(*          pdf text collection, the branches under "not is_avail" (dead,  *)
(*          is_avail is the constant True).                                *)
(* Part II  standalone_json_updater.py: one pass of main() over the raw    *)
(*          export files against the destination's variants.               *)
(* Part III local_maintenance_v3_secrets.py: graphql_query, one action per *)
(*          request it posts.                                              *)
(* Part IV  the page loop of discover_shopify_catalog, which fetch_catalog *)
(*          of source_inspector.py repeats: one action per page request.   *)
(* Part V   local_maintenance_v3_secrets.py: process_products, the         *)
(*          pre-order cleanup, run in passes over the destination; one     *)
(*          action per iteration of its page loop.  Titles are sequences   *)
(*          of an 11-character prefix and a name, descriptions sequences   *)
(*          of paragraphs; the white space between paragraphs is left out. *)
(* Part VI  update_default_variant of inventory_master_sync.py: the        *)
(*          payload it builds from an item's price, compare-at price and   *)
(*          weight.  Numbers are thousandths, texts character sequences,   *)
(*          unsigned.                                                      *)
(***************************************************************************)
EXTENDS Integers, Sequences, FiniteSets, TLC

(***************************************************************************)
(* Bounds of the model.                                                    *)
(***************************************************************************)
MaxQueue == 2       \* items in the combined queue all_rows
MaxRuns == 2        \* runs of main() in one behaviour
MaxFaults == 1      \* remote calls that fail in one behaviour
MaxPrior == 1       \* ledger entries that exist before the first run

\* TEST_LIMIT is 20 in the source; scaled so that a queue of MaxQueue items
\* reaches it.
TEST_LIMIT == 1

SKUS == {"X1", "X2"}
\* the identities the spreadsheet and the sitemap carry; the storefront feed
\* carries all of them, so an identity can come from two adapters
SheetSkus == {"X1"}
PageSkus == {"X2"}
\* the identities whose feed variant may be sold out
SoldOutSkus == {"X1"}
URLS == {"http://src/1.jpg"}

\* cloudinary res['secure_url'] of an uploaded source url, and the demo url
\* DRY_RUN substitutes for it.
Hosted(url) == <<"cloudinary", url>>
DemoUrl == <<"cloudinary", "demo">>

\* shopify ids: None, the id a real productCreate returns, the DRY_RUN id.
None == <<>>
Gid(n) == <<"gid", n>>
DryGid == <<"gid", "dry">>

NoSku == ""

(***************************************************************************)
(* Source adapters.  Every adapter emits records of one shape; the vendor  *)
(* is fixed by the adapter (determine_vendor), the title stands for the    *)
(* record's own data (title, price, weight, barcode).                      *)
(***************************************************************************)
ImageLists == {<<>>} \cup {<<u>> : u \in URLS}

\* the spreadsheet rows main() turns into items
asmodee_items == { [sku |-> s, title |-> "sheet row", vendor |-> "Asmodee", images_source |-> im, active_status |-> TRUE, is_skeleton |-> FALSE, origin |-> "asmodee"] : s \in SheetSkus, im \in ImageLists }

\* the products.json feed of a vendor storefront; active_status is the
\* variant's "available" (line 299)
discover_shopify_catalog == { it \in [sku : SKUS, title : {"Moonstone: feed"}, vendor : {"Goblin King Games"}, images_source : ImageLists, active_status : BOOLEAN, is_skeleton : {FALSE}, origin : {"moonstone"}] : it.active_status \/ it.sku \in SoldOutSkus }

\* sitemap skeletons; sku and images_source are what the product page holds
\* and become known when resolve_corvus_skeleton succeeds
\* (the pages taken here offer the product: active_status True, line 496)
discover_corvus_catalog == { [sku |-> s, title |-> "Infinity: page", vendor |-> "Corvus Belli", images_source |-> im, active_status |-> TRUE, is_skeleton |-> TRUE, origin |-> "corvus"] : s \in PageSkus, im \in ImageLists }

Items == asmodee_items \cup discover_shopify_catalog \cup discover_corvus_catalog

\* position of an adapter in all_rows = asmodee + moonstone + warsenal + corvus
AdapterRank(o) == CASE o = "asmodee" -> 1 [] o = "moonstone" -> 2 [] OTHER -> 3

\* the combined queues: the adapters' lists concatenated in the fixed order
Queues == { q \in UNION { [1..n -> Items] : n \in 0..MaxQueue } : \A a, b \in DOMAIN q : a < b => AdapterRank(q[a].origin) <= AdapterRank(q[b].origin) }

(***************************************************************************)
(* State.                                                                  *)
(***************************************************************************)
VARIABLES
  flags,                    \* DRY_RUN, TEST_MODE, RESET_IGNORED_ITEMS
  all_rows,                 \* the combined queue (the source feeds)
  disk,                     \* product_inventory.json in the repository
  inventory_map,            \* the ledger in memory
  loaded,                   \* inventory_map as the run loaded it
  shop,                     \* the destination's products, by creation order
  pc, run, i,
  successful_drafts_count,
  RATE_LIMIT_HIT,
  updates_made,
  calls,                    \* remote calls of the current run, in order
  outcomes,                 \* what each iteration of the current run did
  hist,                     \* how the run before ended, whether the ledger was read
  faults

\* standalone_json_updater.py
VARIABLES
  files,                    \* the SOURCE_FILES on disk, in the order of the list
  catalog,                  \* the destination's first variants, by sku
  dry_run,                  \* the updater's own DRY_RUN
  source_data,              \* what load_local_data returned
  upc, count,
  sent,                     \* mutations posted, in order
  compared                  \* every comparison update_cost_and_compare made

\* local_maintenance_v3_secrets.py
VARIABLES
  mpc,                      \* where graphql_query stands
  attempt,                  \* the loop variable of "for attempt in range(3)"
  payload,
  answers,                  \* what came back for each request of this call
  returned,                 \* the value graphql_query returned
  slept,                    \* seconds spent in time.sleep in this call
  queries                   \* calls of graphql_query so far

\* discover_shopify_catalog
VARIABLES
  source_pages,             \* the pages of products.json the source store holds
  source_label,
  page,
  found_items,
  dpc,                      \* where the page loop stands
  requests                  \* every page request made, with what came back

\* process_products
VARIABLES
  store,                    \* the destination's products, in the order it lists them
  now,                      \* datetime.now() of the pass
  cursor,
  cpc,                      \* where process_products stands
  pass,                     \* passes started so far
  pages,                    \* every page request: the document sent, what came back
  updates,                  \* every productUpdate sent, with its outcome
  total_processed,
  total_updated

\* update_default_variant
VARIABLES
  args,                     \* the arguments of the call
  gql_input,                \* the payload built, << >> before it is
  vpc                       \* "call", "returned" (nothing sent), or how the post ended

main_vars == <<flags, all_rows, disk, inventory_map, loaded, shop, pc, run, i, successful_drafts_count, RATE_LIMIT_HIT, updates_made, calls, outcomes, hist, faults>>
updater == <<files, catalog, dry_run, source_data, upc, count, sent, compared>>
maintenance == <<mpc, attempt, payload, answers, returned, slept, queries>>
discovery == <<source_pages, source_label, page, found_items, dpc, requests>>
cleanup == <<store, now, cursor, cpc, pass, pages, updates, total_processed, total_updated>>
pricing == <<args, gql_input, vpc>>
aside == <<discovery, cleanup, pricing>>
vars == <<main_vars, updater, maintenance, aside>>

DRY_RUN == flags.dry
TEST_MODE == flags.test
RESET_IGNORED_ITEMS == flags.reset

\* line 986: availability is no longer scraped, every item counts as available
is_avail == TRUE

Has(m, s) == s \in DOMAIN m
\* (an entry that is reported but not stored in the map)
PutNothing(m, s, e) == m
\* (an assignment that would keep the new entry alone)
PutAlone(m, s, e) == [t \in {s} |-> e]
Put(m, s, e) == [t \in DOMAIN m \cup {s} |-> IF t = s THEN e ELSE m[t]]
Call(op, s, ok) == [op |-> op, sku |-> s, ok |-> ok, pos |-> i]
Cost(ok) == IF ok THEN 0 ELSE 1
Fail(n) == faults + n <= MaxFaults

\* a ledger entry no run of this program writes, but which it honours
IgnoredEntry(s) == [sku |-> s, title |-> "old", vendor |-> "Corvus Belli", cloudinary_images |-> <<>>, shopify_id |-> None, shopify_status |-> "PERMANENTLY_IGNORED"]

\* what an earlier run left of a feed item that had no image then: the entry
\* of lines 1044-1049 and the draft it stands for
EarlierEntry(s, id) == [sku |-> s, title |-> "Moonstone: feed", vendor |-> "Goblin King Games", cloudinary_images |-> <<>>, shopify_id |-> id, shopify_status |-> "DRAFT_CREATED"]
EarlierDraft(s) == [title |-> "Moonstone: feed", vendor |-> "Goblin King Games", status |-> "DRAFT", made_for |-> s, sku |-> s, stock |-> TRUE, meta |-> TRUE, media |-> << >>]

\* the ledgers and shops a first run of the model may find: at most
\* MaxPrior entries, quarantined ones or drafts of earlier runs
Priors == { h \in [SKUS -> {"none", "ignored", "earlier"}] : Cardinality({ s \in SKUS : h[s] # "none" }) <= MaxPrior }
RECURSIVE PriorShop(_, _)
PriorShop(h, S) == IF S = {} THEN << >> ELSE LET s == CHOOSE x \in S : TRUE IN IF h[s] = "earlier" THEN <<EarlierDraft(s)>> \o PriorShop(h, S \ {s}) ELSE PriorShop(h, S \ {s})
PriorPid(h, s) == CHOOSE n \in 1..Len(PriorShop(h, SKUS)) : PriorShop(h, SKUS)[n].sku = s
PriorLedger(h) == [s \in { t \in SKUS : h[t] # "none" } |-> IF h[s] = "ignored" THEN IgnoredEntry(s) ELSE EarlierEntry(s, <<"gid", PriorPid(h, s)>>)]

\* no catalog discovery is running
DiscoveryOff ==
  /\ source_pages = << >>
  /\ source_label = ""
  /\ page = 1
  /\ found_items = << >>
  /\ dpc = "off"
  /\ requests = << >>

\* no cleanup is running
CleanupOff ==
  /\ store = << >>
  /\ now = [day |-> 0, part |-> 0]
  /\ cursor = ""
  /\ cpc = "off"
  /\ pass = 0
  /\ pages = << >>
  /\ updates = << >>
  /\ total_processed = 0
  /\ total_updated = 0

\* no variant update is running
VariantOff ==
  /\ args = << >>
  /\ gql_input = << >>
  /\ vpc = "off"

AsideOff == DiscoveryOff /\ CleanupOff /\ VariantOff

\* the maintenance script is not running
MaintenanceOff ==
  /\ mpc = "off"
  /\ attempt = 0
  /\ payload = << >>
  /\ answers = << >>
  /\ returned = << >>
  /\ slept = 0
  /\ queries = 0

MainInit ==
  /\ flags \in [dry : BOOLEAN, test : BOOLEAN, reset : BOOLEAN]
  /\ all_rows \in Queues
  /\ \E h \in Priors : disk = PriorLedger(h) /\ shop = PriorShop(h, SKUS)
  /\ inventory_map = << >>
  /\ loaded = << >>
  /\ pc = "idle"
  /\ run = 0
  /\ i = 1
  /\ successful_drafts_count = 0
  /\ RATE_LIMIT_HIT = FALSE
  /\ updates_made = FALSE
  /\ calls = << >>
  /\ outcomes = << >>
  /\ hist = [prev |-> "none", load |-> TRUE]
  /\ faults = 0
  /\ files = << >>
  /\ catalog = << >>
  /\ dry_run = FALSE
  /\ source_data = << >>
  /\ upc = "off"
  /\ count = 0
  /\ sent = << >>
  /\ compared = << >>
  /\ MaintenanceOff
  /\ AsideOff

(***************************************************************************)
(* process_and_upload_images: one outcome of the image host per url.       *)
(* Returns the urls kept, the rate-limit flag and the uploads attempted.   *)
(***************************************************************************)
UploadOutcomes == {"ok", "rate", "err"}

Valid(url) == url # ""

\* (a loop body without the "if RATE_LIMIT_HIT" test of line 546)
UploadOneUnchecked(sku, url, up, rate, dry) ==
  IF ~Valid(url) THEN [urls |-> <<>>, rate |-> rate, calls |-> <<>>, cost |-> 0]
  ELSE IF dry THEN [urls |-> <<DemoUrl>>, rate |-> rate, calls |-> <<>>, cost |-> 0]
  ELSE IF up = "ok" THEN [urls |-> <<Hosted(url)>>, rate |-> rate, calls |-> <<Call("upload", sku, TRUE)>>, cost |-> 0]
  ELSE IF up = "rate" THEN [urls |-> <<url>>, rate |-> TRUE, calls |-> <<Call("upload", sku, FALSE)>>, cost |-> 1]
  ELSE [urls |-> <<>>, rate |-> rate, calls |-> <<Call("upload", sku, FALSE)>>, cost |-> 1]

\* (a loop body without the "if DRY_RUN" test of line 554)
UploadOneLive(sku, url, up, rate, dry) ==
  IF ~Valid(url) THEN [urls |-> <<>>, rate |-> rate, calls |-> <<>>, cost |-> 0]
  ELSE IF rate THEN [urls |-> <<url>>, rate |-> TRUE, calls |-> <<>>, cost |-> 0]
  ELSE IF up = "ok" THEN [urls |-> <<Hosted(url)>>, rate |-> FALSE, calls |-> <<Call("upload", sku, TRUE)>>, cost |-> 0]
  ELSE IF up = "rate" THEN [urls |-> <<url>>, rate |-> TRUE, calls |-> <<Call("upload", sku, FALSE)>>, cost |-> 1]
  ELSE [urls |-> <<>>, rate |-> FALSE, calls |-> <<Call("upload", sku, FALSE)>>, cost |-> 1]

UploadOne(sku, url, up, rate, dry) ==
  IF ~Valid(url) THEN [urls |-> <<>>, rate |-> rate, calls |-> <<>>, cost |-> 0]
  ELSE IF rate THEN [urls |-> <<url>>, rate |-> TRUE, calls |-> <<>>, cost |-> 0]
  ELSE IF dry THEN [urls |-> <<DemoUrl>>, rate |-> FALSE, calls |-> <<>>, cost |-> 0]
  ELSE IF up = "ok" THEN [urls |-> <<Hosted(url)>>, rate |-> FALSE, calls |-> <<Call("upload", sku, TRUE)>>, cost |-> 0]
  ELSE IF up = "rate" THEN [urls |-> <<url>>, rate |-> TRUE, calls |-> <<Call("upload", sku, FALSE)>>, cost |-> 1]
  ELSE [urls |-> <<>>, rate |-> FALSE, calls |-> <<Call("upload", sku, FALSE)>>, cost |-> 1]

RECURSIVE process_and_upload_images(_, _, _, _, _)
process_and_upload_images(sku, source_urls, ups, rate, dry) ==
  IF source_urls = <<>> THEN [urls |-> <<>>, rate |-> rate, calls |-> <<>>, cost |-> 0]
  ELSE LET this == UploadOne(sku, Head(source_urls), Head(ups), rate, dry)
           rest == process_and_upload_images(sku, Tail(source_urls), Tail(ups), this.rate, dry)
       IN [urls |-> this.urls \o rest.urls, rate |-> rest.rate, calls |-> this.calls \o rest.calls, cost |-> this.cost + rest.cost]

(***************************************************************************)
(* The item loop of main().                                                *)
(***************************************************************************)
InLoop == pc = "loop" /\ i <= Len(all_rows)
item == all_rows[i]
sku == item.sku
existing_product == inventory_map[sku]

\* a loop that would also stop at the first remote call that failed
LimitReachedOrFailed == (TEST_MODE /\ successful_drafts_count >= TEST_LIMIT) \/ (\E k \in DOMAIN calls : ~calls[k].ok)

\* (a test that lets one more through)
LimitReachedLate == TEST_MODE /\ successful_drafts_count > TEST_LIMIT

\* line 963
LimitReached == TEST_MODE /\ successful_drafts_count >= TEST_LIMIT

\* lines 967-971: the page of a skeleton is fetched before anything is decided
\* (line 329: until then the item goes by its CB_LOOKUP_<slug> sku)
LookupSku == "CB_LOOKUP"
Resolved(it) == IF it.is_skeleton THEN <<Call("resolve", LookupSku, TRUE)>> ELSE <<>>

\* Variants of the three tests below, against which the properties of the
\* loop are measured: a test that never quarantines, one that ignores the
\* reset flag, one that skips an Asmodee item with images, one that
\* backfills over a stored image list.
QuarantinedNever(m, s, reset) == FALSE
QuarantinedDespiteReset(m, s, reset) == Has(m, s) /\ m[s].shopify_status = "PERMANENTLY_IGNORED"
NoImageSkipAnyAsmodee(it) == it.vendor = "Asmodee"
NeedsBackfillAlways(entry, it) == it.images_source # <<>>
\* ... and one that hosts again a list that holds a source url
NeedsBackfillUnhosted(entry, it) == it.images_source # <<>> /\ (entry.cloudinary_images = <<>> \/ \E k \in DOMAIN entry.cloudinary_images : entry.cloudinary_images[k] \in URLS)

\* line 978-979
Quarantined(m, s, reset) == Has(m, s) /\ m[s].shopify_status = "PERMANENTLY_IGNORED" /\ ~reset

\* lines 996-997
NoImageSkip(it) == it.images_source = <<>> /\ it.vendor = "Asmodee"

\* line 1075
NeedsBackfill(entry, it) == entry.cloudinary_images = <<>> /\ it.images_source # <<>>

\* The branch main() takes for an item it has reached and resolved.
Decision(it, m, reset) ==
  IF Quarantined(m, it.sku, reset) THEN "skip_ignored"
  ELSE IF ~Has(m, it.sku) THEN (IF ~is_avail THEN "skip_unavailable" ELSE IF NoImageSkip(it) THEN "skip_no_image" ELSE "create")
  ELSE "heal"

\* check_shopify_status: the products whose first variant carries the sku
Matches(s) == { n \in 1..Len(shop) : shop[n].sku = s }

\* one iteration: the branch taken, whether a shell was created, the ledger
\* entry the iteration found and the vendors the identity is listed under
Step(kind, shellOk) == [pos |-> i, sku |-> sku, origin |-> item.origin, kind |-> kind, shell |-> shellOk, seen |-> IF Has(inventory_map, sku) THEN {inventory_map[sku]} ELSE {}, live |-> { shop[n].vendor : n \in Matches(sku) }]

StartRun(loadOk) ==
  /\ pc \in {"idle", "done", "noconn", "crashed"}
  /\ run < MaxRuns
  /\ loadOk \/ (disk # << >> /\ Fail(1))
  /\ run' = run + 1
  /\ inventory_map' = IF loadOk THEN disk ELSE << >>
  /\ loaded' = inventory_map'
  /\ faults' = faults + (IF loadOk THEN 0 ELSE 1)
  /\ pc' = "loop"
  /\ i' = 1
  /\ successful_drafts_count' = 0
  /\ RATE_LIMIT_HIT' = FALSE
  /\ updates_made' = FALSE
  /\ calls' = << >>
  /\ outcomes' = << >>
  /\ UNCHANGED <<flags, all_rows, disk, shop, updater, maintenance, aside>>
  /\ hist' = [prev |-> pc, load |-> loadOk]

\* lines 862-870: no connection or no location id, main() returns at once
StartRunNoConnection ==
  /\ pc \in {"idle", "done", "noconn", "crashed"}
  /\ run < MaxRuns
  /\ Fail(1)
  /\ run' = run + 1
  /\ faults' = faults + 1
  /\ pc' = "noconn"
  /\ inventory_map' = << >>
  /\ loaded' = << >>
  /\ i' = 1
  /\ successful_drafts_count' = 0
  /\ RATE_LIMIT_HIT' = FALSE
  /\ updates_made' = FALSE
  /\ calls' = << >>
  /\ outcomes' = << >>
  /\ UNCHANGED <<flags, all_rows, disk, shop, updater, maintenance, aside>>
  /\ hist' = [prev |-> pc, load |-> FALSE]

\* lines 963-965
LimitBreak ==
  /\ InLoop
  /\ LimitReached
  /\ pc' = "finish"
  /\ UNCHANGED <<flags, all_rows, disk, inventory_map, loaded, shop, run, i, successful_drafts_count, RATE_LIMIT_HIT, updates_made, calls, outcomes, hist, faults, updater, maintenance, aside>>

LoopEnd ==
  /\ pc = "loop"
  /\ i > Len(all_rows)
  /\ pc' = "finish"
  /\ UNCHANGED <<flags, all_rows, disk, inventory_map, loaded, shop, run, i, successful_drafts_count, RATE_LIMIT_HIT, updates_made, calls, outcomes, hist, faults, updater, maintenance, aside>>

\* lines 967-970: resolve_corvus_skeleton returned None
ResolveFail ==
  /\ InLoop
  /\ ~LimitReached
  /\ item.is_skeleton
  /\ Fail(1)
  /\ faults' = faults + 1
  /\ calls' = Append(calls, Call("resolve", LookupSku, FALSE))
  /\ outcomes' = Append(outcomes, Step("unresolved", FALSE))
  /\ i' = i + 1
  /\ UNCHANGED <<flags, all_rows, disk, inventory_map, loaded, shop, pc, run, successful_drafts_count, RATE_LIMIT_HIT, updates_made, hist, updater, maintenance, aside>>

\* lines 978-981
SkipIgnored ==
  /\ InLoop
  /\ ~LimitReached
  /\ Decision(item, inventory_map, RESET_IGNORED_ITEMS) = "skip_ignored"
  /\ calls' = calls \o Resolved(item)
  /\ outcomes' = Append(outcomes, Step("skip_ignored", FALSE))
  /\ i' = i + 1
  /\ UNCHANGED <<flags, all_rows, disk, inventory_map, loaded, shop, pc, run, successful_drafts_count, RATE_LIMIT_HIT, updates_made, hist, faults, updater, maintenance, aside>>

\* lines 996-1000
SkipNoImage ==
  /\ InLoop
  /\ ~LimitReached
  /\ Decision(item, inventory_map, RESET_IGNORED_ITEMS) = "skip_no_image"
  /\ calls' = calls \o Resolved(item)
  /\ outcomes' = Append(outcomes, Step("skip_no_image", FALSE))
  /\ i' = i + 1
  /\ UNCHANGED <<flags, all_rows, disk, inventory_map, loaded, shop, pc, run, successful_drafts_count, RATE_LIMIT_HIT, updates_made, hist, faults, updater, maintenance, aside>>

\* create_shopify_product_shell: the product a successful productCreate adds
Shell(it) == [title |-> it.title, vendor |-> it.vendor, status |-> "DRAFT", made_for |-> it.sku, sku |-> NoSku, stock |-> FALSE, meta |-> FALSE, media |-> << >>]

\* lines 1013-1042 on the shell: variant update, stock activation at the
\* location, metafields, media; each remote call succeeds or fails by itself
Completed(p, s, urls, var, stk, met, med) == [p EXCEPT !.sku = IF var THEN s ELSE NoSku, !.stock = stk, !.meta = met, !.media = IF med THEN urls ELSE << >>]

\* update_shopify_images returns without a request for an empty list
MediaCall(s, urls, med) == IF urls = << >> THEN << >> ELSE <<Call("productCreateMedia", s, med)>>

\* lines 1044-1049
NewEntry(it, urls, id) == [sku |-> it.sku, title |-> it.title, vendor |-> it.vendor, cloudinary_images |-> urls, shopify_id |-> id, shopify_status |-> "DRAFT_CREATED"]

\* a create branch that would go on to the later steps without a shell id
CreateCallsWithoutShell(s, urls, shell, var, stk, met, med) == <<Call("productCreate", s, shell), Call("productVariantUpdate", s, var), Call("inventoryActivate", s, stk), Call("metafieldsSet", s, met)>> \o MediaCall(s, urls, med)

\* lines 1007-1042: the requests of the create branch, in the order of the
\* code; the four after productCreate are under "if prod_id:"
CreateCalls(s, urls, shell, var, stk, met, med) == <<Call("productCreate", s, shell)>> \o (IF shell THEN <<Call("productVariantUpdate", s, var), Call("inventoryActivate", s, stk), Call("metafieldsSet", s, met)>> \o MediaCall(s, urls, med) ELSE << >>)

\* lines 1002-1056 with DRY_RUN off
CreateItem(ups, shell, var, stk, met, med) ==
  /\ InLoop
  /\ ~LimitReached
  /\ ~DRY_RUN
  /\ Decision(item, inventory_map, RESET_IGNORED_ITEMS) = "create"
  /\ LET up == process_and_upload_images(sku, item.images_source, ups, RATE_LIMIT_HIT, FALSE)
         pid == Len(shop) + 1
         cost == up.cost + Cost(shell) + (IF shell THEN Cost(var) + Cost(stk) + Cost(met) + (IF up.urls = << >> THEN 0 ELSE Cost(med)) ELSE 0)
     IN /\ Fail(cost)
        /\ faults' = faults + cost
        /\ RATE_LIMIT_HIT' = up.rate
        /\ calls' = calls \o Resolved(item) \o up.calls \o CreateCalls(sku, up.urls, shell, var, stk, met, med)
        /\ shop' = IF shell THEN Append(shop, Completed(Shell(item), sku, up.urls, var, stk, met, med)) ELSE shop
        /\ inventory_map' = IF shell THEN Put(inventory_map, sku, NewEntry(item, up.urls, Gid(pid))) ELSE inventory_map
        /\ updates_made' = (updates_made \/ shell)
        /\ successful_drafts_count' = successful_drafts_count + (IF shell THEN 1 ELSE 0)
        /\ outcomes' = Append(outcomes, Step("create", shell))
  /\ i' = i + 1
  /\ UNCHANGED <<flags, all_rows, disk, loaded, pc, run, hist, updater, maintenance, aside>>

\* lines 1002-1056 with DRY_RUN on: every helper returns before its request
CreateItemDry ==
  /\ InLoop
  /\ ~LimitReached
  /\ DRY_RUN
  /\ Decision(item, inventory_map, RESET_IGNORED_ITEMS) = "create"
  /\ LET up == process_and_upload_images(sku, item.images_source, [k \in 1..Len(item.images_source) |-> "ok"], RATE_LIMIT_HIT, TRUE)
     IN /\ RATE_LIMIT_HIT' = up.rate
        /\ inventory_map' = Put(inventory_map, sku, NewEntry(item, up.urls, DryGid))
  /\ calls' = calls \o Resolved(item)
  /\ updates_made' = TRUE
  /\ successful_drafts_count' = successful_drafts_count + 1
  /\ outcomes' = Append(outcomes, Step("create", TRUE))
  /\ i' = i + 1
  /\ UNCHANGED <<flags, all_rows, disk, loaded, shop, pc, run, hist, faults, updater, maintenance, aside>>

\* lines 1063-1085, the self-healing branch.  found = 0: check_shopify_status
\* returned None.
HealItem(found, ups, med) ==
  /\ InLoop
  /\ ~LimitReached
  /\ Decision(item, inventory_map, RESET_IGNORED_ITEMS) = "heal"
  /\ LET stored_images == existing_product.cloudinary_images
         lookup == existing_product.shopify_id = None
         hit == lookup /\ found # 0
         shopify_id == IF hit THEN Gid(found) ELSE existing_product.shopify_id
         backfill == NeedsBackfill(existing_product, item)
         up == IF backfill THEN process_and_upload_images(sku, item.images_source, ups, RATE_LIMIT_HIT, DRY_RUN) ELSE [urls |-> << >>, rate |-> RATE_LIMIT_HIT, calls |-> << >>, cost |-> 0]
         attach == backfill /\ up.urls # << >> /\ shopify_id # None
         request == attach /\ ~DRY_RUN
         cost == up.cost + (IF lookup /\ found = 0 /\ Matches(sku) # {} THEN 1 ELSE 0) + (IF request THEN Cost(med) ELSE 0)
         entry == [existing_product EXCEPT !.shopify_id = shopify_id, !.cloudinary_images = IF up.urls # << >> THEN up.urls ELSE @]
     IN /\ found \in (IF lookup THEN Matches(sku) \cup {0} ELSE {0})
        /\ Fail(cost)
        /\ faults' = faults + cost
        /\ RATE_LIMIT_HIT' = up.rate
        /\ calls' = calls \o Resolved(item) \o (IF lookup THEN <<Call("checkStatus", sku, found # 0)>> ELSE << >>) \o up.calls \o (IF request THEN <<Call("productCreateMedia", sku, med)>> ELSE << >>)
        /\ shop' = IF request /\ med THEN [shop EXCEPT ![shopify_id[2]].media = @ \o up.urls] ELSE shop
        /\ inventory_map' = [inventory_map EXCEPT ![sku] = entry]
        /\ updates_made' = (updates_made \/ hit \/ up.urls # << >>)
        /\ successful_drafts_count' = successful_drafts_count + (IF attach THEN 1 ELSE 0)
        /\ outcomes' = Append(outcomes, Step("heal", FALSE))
  /\ i' = i + 1
  /\ UNCHANGED <<flags, all_rows, disk, loaded, pc, run, hist, updater, maintenance, aside>>

\* the process dies inside the loop (the job is killed, the runner times
\* out): what it held in memory is gone, the repository and the shop stay
Crash ==
  /\ pc = "loop"
  /\ pc' = "crashed"
  /\ inventory_map' = << >>
  /\ loaded' = << >>
  /\ i' = 1
  /\ successful_drafts_count' = 0
  /\ RATE_LIMIT_HIT' = FALSE
  /\ updates_made' = FALSE
  /\ calls' = << >>
  /\ outcomes' = << >>
  /\ UNCHANGED <<flags, all_rows, disk, shop, run, hist, faults, updater, maintenance, aside>>

\* line 1094: new_items_added holds the entries this run created
new_items_added == { k \in 1..Len(outcomes) : outcomes[k].kind = "create" /\ outcomes[k].shell }
Email == IF new_items_added # {} /\ ~DRY_RUN THEN <<Call("send_email", NoSku, TRUE)>> ELSE << >>

\* lines 1097-1101
FinishDry ==
  /\ pc = "finish"
  /\ DRY_RUN
  /\ calls' = Append(calls, Call("write_report", NoSku, TRUE))
  /\ pc' = "done"
  /\ UNCHANGED <<flags, all_rows, disk, inventory_map, loaded, shop, run, i, successful_drafts_count, RATE_LIMIT_HIT, updates_made, outcomes, hist, faults, updater, maintenance, aside>>

\* lines 1102-1105
Save ==
  /\ pc = "finish"
  /\ ~DRY_RUN
  /\ updates_made
  /\ calls' = calls \o Email \o <<Call("write_ledger", NoSku, TRUE)>>
  /\ disk' = inventory_map
  /\ pc' = "done"
  /\ UNCHANGED <<flags, all_rows, inventory_map, loaded, shop, run, i, successful_drafts_count, RATE_LIMIT_HIT, updates_made, outcomes, hist, faults, updater, maintenance, aside>>

\* lines 1104-1105: update_file raises, and so does the create_file that the
\* except falls back to (the file exists): main() ends with the exception
SaveFail ==
  /\ pc = "finish"
  /\ ~DRY_RUN
  /\ updates_made
  /\ disk # << >>
  /\ Fail(1)
  /\ faults' = faults + 1
  /\ pc' = "crashed"
  /\ inventory_map' = << >>
  /\ loaded' = << >>
  /\ i' = 1
  /\ successful_drafts_count' = 0
  /\ RATE_LIMIT_HIT' = FALSE
  /\ updates_made' = FALSE
  /\ calls' = << >>
  /\ outcomes' = << >>
  /\ UNCHANGED <<flags, all_rows, disk, shop, run, hist, updater, maintenance, aside>>

FinishClean ==
  /\ pc = "finish"
  /\ ~DRY_RUN
  /\ ~updates_made
  /\ calls' = calls \o Email
  /\ pc' = "done"
  /\ UNCHANGED <<flags, all_rows, disk, inventory_map, loaded, shop, run, i, successful_drafts_count, RATE_LIMIT_HIT, updates_made, outcomes, hist, faults, updater, maintenance, aside>>

\* what the image host may answer for the urls of the current item
UploadChoices == IF InLoop THEN [1..Len(item.images_source) -> UploadOutcomes] ELSE {}

Next ==
  \/ \E loadOk \in BOOLEAN : StartRun(loadOk)
  \/ StartRunNoConnection
  \/ LimitBreak
  \/ LoopEnd
  \/ ResolveFail
  \/ SkipIgnored
  \/ SkipNoImage
  \/ \E ups \in UploadChoices, shell, var, stk, met, med \in BOOLEAN : CreateItem(ups, shell, var, stk, met, med)
  \/ CreateItemDry
  \/ \E found \in 0..Len(shop), ups \in UploadChoices, med \in BOOLEAN : HealItem(found, ups, med)
  \/ Crash
  \/ FinishDry
  \/ Save
  \/ SaveFail
  \/ FinishClean

Spec == MainInit /\ [][Next]_vars

(***************************************************************************)
(* Python values of the price fields: None, a text or a number.  A text is *)
(* its sequence of characters; a number is held in thousandths.            *)
(***************************************************************************)
PyNone == [t |-> "none", s |-> << >>, m |-> 0]
PyText(chars) == [t |-> "text", s |-> chars, m |-> 0]
PyNum(mils) == [t |-> "num", s |-> << >>, m |-> mils]

DigitChars == <<"0", "1", "2", "3", "4", "5", "6", "7", "8", "9">>
IsDigit(c) == \E d \in 1..10 : DigitChars[d] = c
DigitOf(c) == (CHOOSE d \in 1..10 : DigitChars[d] = c) - 1
RECURSIVE Decimal(_)
Decimal(n) == IF n < 10 THEN <<DigitChars[n + 1]>> ELSE Decimal(n \div 10) \o <<DigitChars[(n % 10) + 1]>>

\* repr of a float: the shortest fraction, one digit at least
FloatRepr(mils) ==
  LET f == mils % 1000
      d1 == DigitChars[(f \div 100) + 1]
      d2 == DigitChars[((f \div 10) % 10) + 1]
      d3 == DigitChars[(f % 10) + 1]
  IN Decimal(mils \div 1000) \o <<".">> \o (IF f % 100 = 0 THEN <<d1>> ELSE IF f % 10 = 0 THEN <<d1, d2>> ELSE <<d1, d2, d3>>)

\* str(): the text itself, the repr of a number, "None"
str(v) == CASE v.t = "text" -> v.s [] v.t = "num" -> FloatRepr(v.m) [] OTHER -> <<"N", "o", "n", "e">>

\* the truth value Python gives the field in "if target_data[...]:"
Truthy(v) == CASE v.t = "text" -> v.s # << >> [] v.t = "num" -> v.m # 0 [] OTHER -> FALSE

RECURSIVE Without(_, _)
Without(chars, drop) == IF chars = << >> THEN << >> ELSE (IF Head(chars) \in drop THEN << >> ELSE <<Head(chars)>>) \o Without(Tail(chars), drop)
RECURSIVE Strip(_)
Strip(chars) == IF chars # << >> /\ Head(chars) = " " THEN Strip(Tail(chars)) ELSE IF chars # << >> /\ chars[Len(chars)] = " " THEN Strip(SubSeq(chars, 1, Len(chars) - 1)) ELSE chars

RECURSIVE Whole(_, _)
Whole(chars, acc) == IF chars = << >> THEN acc ELSE Whole(Tail(chars), 10 * acc + DigitOf(Head(chars)))
Dots(chars) == { k \in DOMAIN chars : chars[k] = "." }
IsNumeral(chars) == /\ \A k \in DOMAIN chars : IsDigit(chars[k]) \/ chars[k] = "."
                    /\ Cardinality(Dots(chars)) <= 1
                    /\ \E k \in DOMAIN chars : IsDigit(chars[k])
\* float() of a numeral, in thousandths (digits after the third are dropped)
FloatOf(chars) ==
  LET dot == IF Dots(chars) = {} THEN Len(chars) + 1 ELSE CHOOSE k \in Dots(chars) : TRUE
      frac == SubSeq(SubSeq(chars, dot + 1, Len(chars)) \o <<"0", "0", "0">>, 1, 3)
  IN 1000 * Whole(SubSeq(chars, 1, dot - 1), 0) + Whole(frac, 0)

\* (a parse that, for a text float() refuses, reads its digits)
safe_float_of_digits(val) ==
  IF val.t = "none" \/ (val.t = "text" /\ val.s = << >>) THEN 0
  ELSE LET clean_val == Strip(Without(str(val), {"$", ","})) IN IF IsNumeral(clean_val) THEN FloatOf(clean_val) ELSE 1000 * Whole(SelectSeq(clean_val, IsDigit), 0)

\* inventory_master_sync.py lines 223-229
safe_float(val) ==
  IF val.t = "none" \/ (val.t = "text" /\ val.s = << >>) THEN 0
  ELSE LET clean_val == Strip(Without(str(val), {"$", ","})) IN IF IsNumeral(clean_val) THEN FloatOf(clean_val) ELSE 0

(***************************************************************************)
(* standalone_json_updater.py                                              *)
(***************************************************************************)
MaxRows == 1

T_19_990 == <<"1", "9", ".", "9", "9", "0">>
T_19_99 == <<"1", "9", ".", "9", "9">>
T_20_00 == <<"2", "0", ".", "0", "0">>
T_29_99 == <<"2", "9", ".", "9", "9">>
T_12_50 == <<"1", "2", ".", "5", "0">>
T_0_00 == <<"0", ".", "0", "0">>

\* the values a raw export carries in compare_at_price and in price
CompareValues == {PyNone, PyText(T_19_990), PyText(T_19_99), PyText(T_20_00), PyNum(19990)}
PriceValues == {PyNone, PyText(T_12_50)}
Variants == [sku : SKUS, price : PriceValues, compare_at_price : CompareValues]
SourceFile == [exists : BOOLEAN, variants : UNION { [1..n -> Variants] : n \in 0..MaxRows }]
SOURCE_FILES == { fs \in [1..2 -> SourceFile] : \A k \in 1..2 : ~fs[k].exists => fs[k].variants = << >> }

\* the destination: the first variant of the product a sku query returns
CatalogSkus == {"X1"}
LiveVariants == [status : {"ACTIVE", "DRAFT"}, price : {PyText(T_29_99), PyText(T_0_00)}, compareAtPrice : {PyNone, PyText(T_19_99), PyText(T_20_00)}, unitCost : {PyNone, PyText(T_12_50)}]
Catalogs == UNION { [S -> LiveVariants] : S \in SUBSET CatalogSkus }

\* lines 71-75: an entry of sku_map is replaced by a later variant of the sku
Entry(variant) == [sku |-> variant.sku, target_cost |-> variant.price, target_compare |-> variant.compare_at_price]
Store(sku_map, variant) == IF \E k \in DOMAIN sku_map : sku_map[k].sku = variant.sku THEN [k \in DOMAIN sku_map |-> IF sku_map[k].sku = variant.sku THEN Entry(variant) ELSE sku_map[k]] ELSE Append(sku_map, Entry(variant))
RECURSIVE LoadVariants(_, _)
LoadVariants(sku_map, variants) == IF variants = << >> THEN sku_map ELSE LoadVariants(IF Head(variants).sku = NoSku THEN sku_map ELSE Store(sku_map, Head(variants)), Tail(variants))
RECURSIVE LoadFiles(_, _)
LoadFiles(sku_map, fs) == IF fs = << >> THEN sku_map ELSE LoadFiles(IF Head(fs).exists THEN LoadVariants(sku_map, Head(fs).variants) ELSE sku_map, Tail(fs))
load_local_data == LoadFiles(<< >>, files)

\* lines 129-134
find_shopify_product_ids(s) == [current_compare |-> catalog[s].compareAtPrice, current_cost |-> catalog[s].unitCost]

\* lines 146-147 and 166-168: a field is sent when it is set and its text
\* differs from the text of the live value
Differs(target, current) == Truthy(target) /\ str(target) # str(current)
Mutation(op, field, s, target) == [op |-> op, field |-> field, sku |-> s, value |-> str(target), status |-> catalog[s].status, price |-> catalog[s].price]
Comparison(field, s, target, current) == [field |-> field, sku |-> s, target |-> target, current |-> current, sent |-> Differs(target, current) /\ ~dry_run]
update_cost_and_compare(ids, target_data) ==
  (IF Differs(target_data.target_compare, ids.current_compare) /\ ~dry_run THEN <<Mutation("productVariantUpdate", "compareAtPrice", target_data.sku, target_data.target_compare)>> ELSE << >>)
  \o (IF Differs(target_data.target_cost, ids.current_cost) /\ ~dry_run THEN <<Mutation("inventoryItemUpdate", "cost", target_data.sku, target_data.target_cost)>> ELSE << >>)
Comparisons(ids, target_data) ==
  (IF Truthy(target_data.target_compare) THEN <<Comparison("compareAtPrice", target_data.sku, target_data.target_compare, ids.current_compare)>> ELSE << >>)
  \o (IF Truthy(target_data.target_cost) THEN <<Comparison("cost", target_data.sku, target_data.target_cost, ids.current_cost)>> ELSE << >>)
RECURSIVE Apply(_, _)
Apply(cat, muts) == IF muts = << >> THEN cat ELSE Apply([cat EXCEPT ![Head(muts).sku] = IF Head(muts).field = "compareAtPrice" THEN [@ EXCEPT !.compareAtPrice = PyText(Head(muts).value)] ELSE [@ EXCEPT !.unitCost = PyText(Head(muts).value)]], Tail(muts))

UpdaterInit ==
  /\ flags = [dry |-> FALSE, test |-> TRUE, reset |-> TRUE]
  /\ all_rows = << >>
  /\ disk = << >>
  /\ shop = << >>
  /\ inventory_map = << >>
  /\ loaded = << >>
  /\ pc = "off"
  /\ run = 0
  /\ i = 1
  /\ successful_drafts_count = 0
  /\ RATE_LIMIT_HIT = FALSE
  /\ updates_made = FALSE
  /\ calls = << >>
  /\ outcomes = << >>
  /\ hist = [prev |-> "none", load |-> TRUE]
  /\ faults = 0
  /\ files \in SOURCE_FILES
  /\ catalog \in Catalogs
  /\ dry_run \in BOOLEAN
  /\ source_data = << >>
  /\ upc = "start"
  /\ count = 0
  /\ sent = << >>
  /\ compared = << >>
  /\ MaintenanceOff
  /\ AsideOff

\* lines 186-188
MissingCredentials ==
  /\ upc = "start"
  /\ upc' = "exit"
  /\ UNCHANGED <<main_vars, maintenance, aside, files, catalog, dry_run, source_data, count, sent, compared>>

\* lines 191-195
LoadLocalData ==
  /\ upc = "start"
  /\ source_data' = load_local_data
  /\ upc' = IF source_data' = << >> THEN "exit" ELSE "loop"
  /\ UNCHANGED <<main_vars, maintenance, aside, files, catalog, dry_run, count, sent, compared>>

\* lines 202-215: the sku is found, its two fields are compared and sent
CheckItem ==
  /\ upc = "loop"
  /\ count < Len(source_data)
  /\ source_data[count + 1].sku \in DOMAIN catalog
  /\ LET data == source_data[count + 1]
         shopify_ids == find_shopify_product_ids(data.sku)
     IN /\ sent' = sent \o update_cost_and_compare(shopify_ids, data)
        /\ compared' = compared \o Comparisons(shopify_ids, data)
        /\ catalog' = Apply(catalog, update_cost_and_compare(shopify_ids, data))
  /\ count' = count + 1
  /\ UNCHANGED <<main_vars, maintenance, aside, files, dry_run, source_data, upc>>

\* lines 120-127, 135-137, 216-219: no product, another sku on the first
\* variant, or a lookup that raised
NotFound ==
  /\ upc = "loop"
  /\ count < Len(source_data)
  /\ count' = count + 1
  /\ UNCHANGED <<main_vars, maintenance, aside, files, catalog, dry_run, source_data, upc, sent, compared>>

\* lines 221-223
JobComplete ==
  /\ upc = "loop"
  /\ count = Len(source_data)
  /\ upc' = "done"
  /\ UNCHANGED <<main_vars, maintenance, aside, files, catalog, dry_run, source_data, count, sent, compared>>

UpdaterNext ==
  \/ MissingCredentials
  \/ LoadLocalData
  \/ CheckItem
  \/ NotFound
  \/ JobComplete

SpecUpdater == UpdaterInit /\ [][UpdaterNext]_vars

(***************************************************************************)
(* local_maintenance_v3_secrets.py: graphql_query.                         *)
(***************************************************************************)
MaxQueries == 2     \* calls of graphql_query in one behaviour

\* range(3), line 57
MaxAttempts == 3

\* what one requests.post can end in: a response with a status code whose
\* body is json or is not, or an exception of requests (timeout,
\* connection refused) in place of a response
StatusCodes == {200, 400, 429, 500}
ConnectionError == [status_code |-> 0, json |-> FALSE]
Responses == [status_code : StatusCodes, json : BOOLEAN] \ {[status_code |-> 200, json |-> FALSE], [status_code |-> 429, json |-> TRUE], [status_code |-> 500, json |-> TRUE]}
Answers == Responses \cup {ConnectionError}

\* requests: raise_for_status raises HTTPError for 400 <= status < 600
raise_for_status(response) == 400 <= response.status_code /\ response.status_code < 600

\* line 69: response.json() of a body
Json(response) == <<"json", response.status_code>>

\* lines 53-55
Payload(query, variables) == IF variables # << >> THEN [query |-> query, variables |-> variables] ELSE [query |-> query]

Queries == {"query", "mutation"}
Variables == {<< >>, [id |-> "gid", tags |-> <<"Pre-Order">>]}

MaintenanceInit ==
  /\ flags = [dry |-> FALSE, test |-> TRUE, reset |-> TRUE]
  /\ all_rows = << >>
  /\ disk = << >>
  /\ shop = << >>
  /\ inventory_map = << >>
  /\ loaded = << >>
  /\ pc = "off"
  /\ run = 0
  /\ i = 1
  /\ successful_drafts_count = 0
  /\ RATE_LIMIT_HIT = FALSE
  /\ updates_made = FALSE
  /\ calls = << >>
  /\ outcomes = << >>
  /\ hist = [prev |-> "none", load |-> TRUE]
  /\ faults = 0
  /\ files = << >>
  /\ catalog = << >>
  /\ dry_run = FALSE
  /\ source_data = << >>
  /\ upc = "off"
  /\ count = 0
  /\ sent = << >>
  /\ compared = << >>
  /\ mpc = "idle"
  /\ attempt = 0
  /\ payload = << >>
  /\ answers = << >>
  /\ returned = << >>
  /\ slept = 0
  /\ queries = 0
  /\ AsideOff

\* lines 51-55: a caller enters graphql_query
graphql_query(query, variables) ==
  /\ mpc \in {"idle", "returned"}
  /\ queries < MaxQueries
  /\ queries' = queries + 1
  /\ payload' = Payload(query, variables)
  /\ attempt' = 0
  /\ answers' = << >>
  /\ returned' = << >>
  /\ slept' = 0
  /\ mpc' = "post"
  /\ UNCHANGED <<main_vars, updater, aside>>

\* lines 57-72: one iteration of the loop.  A 429 sleeps 2 s and continues;
\* anything that raises inside the try (the post itself, raise_for_status,
\* response.json()) is caught by "except Exception", sleeps 1 s and falls
\* to the next iteration; the loop running out returns None
Raises(answer) == answer = ConnectionError \/ raise_for_status(answer) \/ ~answer.json

Post(answer) ==
  /\ mpc = "post"
  /\ attempt < MaxAttempts
  /\ answers' = Append(answers, answer)
  /\ IF answer # ConnectionError /\ answer.status_code = 429
        THEN slept' = slept + 2 /\ returned' = None
        ELSE IF Raises(answer)
          THEN slept' = slept + 1 /\ returned' = None
          ELSE slept' = slept /\ returned' = Json(answer)
  /\ IF answer # ConnectionError /\ answer.status_code # 429 /\ ~Raises(answer)
        THEN mpc' = "returned" /\ attempt' = attempt
        ELSE attempt' = attempt + 1 /\ mpc' = (IF attempt' = MaxAttempts THEN "returned" ELSE "post")
  /\ UNCHANGED <<main_vars, updater, aside, payload, queries>>

MaintenanceNext ==
  \/ \E query \in Queries, variables \in Variables : graphql_query(query, variables)
  \/ \E answer \in Answers : Post(answer)

SpecMaintenance == MaintenanceInit /\ [][MaintenanceNext]_vars

(***************************************************************************)
(* discover_shopify_catalog: the page loop over products.json.             *)
(* fetch_catalog of source_inspector.py (lines 25-56) is the same loop     *)
(* without the per-product filter.                                         *)
(***************************************************************************)
MaxPages == 3       \* pages the source store holds

MainOff ==
  /\ flags = [dry |-> FALSE, test |-> TRUE, reset |-> TRUE]
  /\ all_rows = << >>
  /\ disk = << >>
  /\ shop = << >>
  /\ inventory_map = << >>
  /\ loaded = << >>
  /\ pc = "off"
  /\ run = 0
  /\ i = 1
  /\ successful_drafts_count = 0
  /\ RATE_LIMIT_HIT = FALSE
  /\ updates_made = FALSE
  /\ calls = << >>
  /\ outcomes = << >>
  /\ hist = [prev |-> "none", load |-> TRUE]
  /\ faults = 0

UpdaterOff ==
  /\ files = << >>
  /\ catalog = << >>
  /\ dry_run = FALSE
  /\ source_data = << >>
  /\ upc = "off"
  /\ count = 0
  /\ sent = << >>
  /\ compared = << >>

\* a product of the source: the sku of its first variant ("" for none), whether
\* it has variants at all, its vendor.  limit=250 is scaled to one product
\* a page.
SourceProducts == { p \in [sku : {"", "S1", "S2"}, variants : BOOLEAN, vendor : {"Warsenal", "Elsewhere"}] : p.variants \/ p.sku = "" }
SourceCatalogs == UNION { [1..n -> { <<p>> : p \in SourceProducts }] : n \in 0..MaxPages }
SourceLabels == {"Moonstone", "Warsenal"}

\* what one requests.get of a page ends in: status 200, another status, or
\* an exception (timeout, connection error, a body that is not json)
PageAnswers == {"200", "status", "raise"}

\* lines 255-264: the products of a page that become items
Kept(p, label) == ~(label = "Warsenal" /\ p.vendor \notin {"Corvus Belli", "Warsenal"}) /\ p.variants /\ p.sku # ""
RECURSIVE PageItems(_, _)
PageItems(products, label) ==
  IF products = << >> THEN << >>
  ELSE (IF Kept(Head(products), label) THEN <<Head(products).sku>> ELSE << >>) \o PageItems(Tail(products), label)

\* the page the store answers with: past the last page, an empty list
ProductsOf(n) == IF n \in DOMAIN source_pages THEN source_pages[n] ELSE << >>

DiscoverInit ==
  /\ MainOff
  /\ UpdaterOff
  /\ MaintenanceOff
  /\ source_pages \in SourceCatalogs
  /\ source_label \in SourceLabels
  /\ page = 1
  /\ found_items = << >>
  /\ dpc = "scan"
  /\ requests = << >>
  /\ CleanupOff
  /\ VariantOff

\* lines 242-308: one iteration of "while True".  A status other than 200
\* breaks (247-249), an exception breaks (305-308), an empty page breaks
\* (252); otherwise the page's items are appended and page moves on
ScanPage(answer) ==
  /\ dpc = "scan"
  /\ requests' = Append(requests, [page |-> page, answer |-> answer])
  /\ IF answer = "200" /\ ProductsOf(page) # << >>
       THEN /\ found_items' = found_items \o PageItems(ProductsOf(page), source_label)
            /\ page' = page + 1
            /\ dpc' = "scan"
       ELSE /\ dpc' = "returned"
            /\ UNCHANGED <<found_items, page>>
  /\ UNCHANGED <<main_vars, updater, maintenance, cleanup, pricing, source_pages, source_label>>

DiscoverNext == \E answer \in PageAnswers : ScanPage(answer)

SpecDiscover == DiscoverInit /\ [][DiscoverNext]_vars

(***************************************************************************)
(* local_maintenance_v3_secrets.py: the pre-order cleanup.                 *)
(***************************************************************************)
MaxProducts == 2    \* products the destination holds
MaxPasses == 2      \* passes of process_products in one behaviour
PageSize == 1       \* "first: 25" of line 81, scaled

\* timedelta(days=30), line 198
ThirtyDays == 30

\* --- titles: remove_preorder_prefix cuts the first 11 characters
Prefixes == {"PRE-ORDER: ", "Pre-Order: "}
upper(piece) == IF piece \in Prefixes THEN "PRE-ORDER: " ELSE piece
StartsWithPrefix(title) == title # << >> /\ upper(Head(title)) = "PRE-ORDER: "
\* (a removal that strips every leading prefix)
RemoveEveryPrefix(title) == SelectSeq(title, LAMBDA piece : upper(piece) # "PRE-ORDER: ")
remove_preorder_prefix(title) == IF StartsWithPrefix(title) THEN Tail(title) ELSE title

\* --- descriptions: paragraphs.  "disclaimer" holds both markers, "start"
\* only 'Estimated Release Date:', "end" only 'Please Note: This product is
\* brand new', "empty" is <p> </p>
HasStart(b) == b \in {"disclaimer", "start"}
HasEnd(b) == b \in {"disclaimer", "end"}
FirstStart(d) == IF \E k \in DOMAIN d : HasStart(d[k]) THEN CHOOSE k \in DOMAIN d : HasStart(d[k]) /\ \A j \in 1..(k - 1) : ~HasStart(d[j]) ELSE 0
FirstEnd(d) == IF \E k \in DOMAIN d : HasEnd(d[k]) THEN CHOOSE k \in DOMAIN d : HasEnd(d[k]) /\ \A j \in 1..(k - 1) : ~HasEnd(d[j]) ELSE 0
\* lines 120-133: from the <p before the first start marker to the </p>
\* after the first end marker; lines 136-139: empty paragraphs dropped
remove_preorder_disclaimer(d) ==
  IF d = << >> THEN d
  ELSE LET a == FirstStart(d)
           b == FirstEnd(d)
           cut == IF a # 0 /\ b # 0 THEN SubSeq(d, 1, a - 1) \o SubSeq(d, b + 1, Len(d)) ELSE d
       IN SelectSeq(cut, LAMBDA p : p # "empty")

\* --- tags: list.remove takes the first occurrence out
RemoveTag(tags, t) ==
  IF \E k \in DOMAIN tags : tags[k] = t
    THEN LET k == CHOOSE n \in DOMAIN tags : tags[n] = t /\ \A j \in 1..(n - 1) : tags[j] # t
         IN SubSeq(tags, 1, k - 1) \o SubSeq(tags, k + 1, Len(tags))
    ELSE tags
In(t, tags) == \E k \in DOMAIN tags : tags[k] = t
tags_to_remove == <<"Pre-Order", "Pre-Order Reminder Sent", "New Release", "New Release Reminder Sent">>
RECURSIVE RemoveTags(_, _)
RemoveTags(tags, ts) == IF ts = << >> THEN tags ELSE RemoveTags(RemoveTag(tags, Head(ts)), Tail(ts))
\* the destination keeps the tags of a product distinct
TagLists == {<<"Hot">>, <<"Pre-Order", "Hot">>, <<"Hot", "New Release">>, <<"Pre-Order", "Pre-Order Reminder Sent", "Hot", "New Release", "New Release Reminder Sent">>}

\* --- dates: an instant is a day and a half-day; strptime gives midnight
DayOf == [d \in {"2025-01-01", "2025-01-31", "2025-02-01"} |-> CASE d = "2025-01-01" -> 1 [] d = "2025-01-31" -> 31 [] d = "2025-02-01" -> 32]
Instant(day, part) == 2 * day + part
Valid_date(s) == s \in DOMAIN DayOf
strptime(s) == Instant(DayOf[s], 0)
\* datetime.now(): during 2025-01-31
Clock == {[day |-> 31, part |-> 1]}

\* the query of line 81 lists the products tagged Pre-Order or New Release
Listed(product) == In("Pre-Order", product.tags) \/ In("New Release", product.tags)

\* the products of the destination.  Those with a release date that has
\* passed carry every text and every listed tag list; those without such a
\* date carry the text and tags of a typical pre-order; one is not listed
Texts == {<<<<"X">>, <<"text">>>>, <<<<"X">>, <<"text", "start", "empty">>>>, <<<<"Pre-Order: ", "X">>, <<"disclaimer", "text">>>>, <<<<"PRE-ORDER: ", "PRE-ORDER: ", "X">>, << >>>>}
Product(text, tags, metafield) == [title |-> text[1], descriptionHtml |-> text[2], tags |-> tags, metafield |-> metafield]
Released == {[value |-> "2025-01-01"], [value |-> "2025-01-31"]}
Unreleased == {None, [value |-> "TBA"], [value |-> "2025-02-01"]}
Products ==
  { Product(x, t, m) : x \in Texts, t \in TagLists \ {<<"Hot">>}, m \in Released }
    \cup { Product(<<<<"Pre-Order: ", "X">>, <<"disclaimer", "text">>>>, <<"Pre-Order", "Hot">>, m) : m \in Unreleased }
    \cup { Product(<<<<"X">>, <<"text">>>>, <<"Hot">>, None) }
Stores == UNION { [1..n -> Products] : n \in 1..MaxProducts }

\* --- lines 76-81: the document sent for a page, as the pieces a GraphQL
\* lexer sees: a quote opens or closes a string, an escaped quote does not
Quote == "\""
Escaped == "\\\""
\* "if cursor" (line 76): None, and the empty string, give no clause
NoCursor == ""
after_clause(c) == IF c # NoCursor THEN <<", after: ", Quote, c, Quote>> ELSE << >>
Document(c) == <<"first: 25, query: ", Quote, "tag:Pre-Order OR tag:", Escaped, "New Release", Escaped>> \o after_clause(c) \o <<Quote>>

\* the destination reading the arguments of products(...): outside a string
\* it accepts the text that names an argument, inside a string everything
\* is part of the value; the string after "after:" is the cursor
ArgumentText == {"first: 25, query: ", ", after: "}
RECURSIVE Parse(_, _, _)
Parse(pieces, inside, acc) ==
  IF pieces = << >> THEN [acc EXCEPT !.ok = acc.ok /\ ~inside /\ acc.awaits = "none"]
  ELSE LET h == Head(pieces)
       IN IF h = Quote THEN Parse(Tail(pieces), ~inside, IF inside THEN [acc EXCEPT !.awaits = "none"] ELSE acc)
          ELSE IF inside THEN Parse(Tail(pieces), TRUE, IF acc.awaits = "after" THEN [acc EXCEPT !.after = h] ELSE acc)
          ELSE IF h \in ArgumentText /\ acc.awaits = "none" THEN Parse(Tail(pieces), FALSE, [acc EXCEPT !.awaits = IF h = ", after: " THEN "after" ELSE "query"])
          ELSE Parse(Tail(pieces), FALSE, [acc EXCEPT !.ok = FALSE])
Read(doc) == Parse(doc, FALSE, [ok |-> TRUE, awaits |-> "none", after |-> NoCursor])

\* the destination's listing: the cursor of an edge names its position
Cursors == <<"c1", "c2", "c3", "c4">>
Position(c) == IF c = NoCursor THEN 0 ELSE CHOOSE k \in DOMAIN Cursors : Cursors[k] = c
ListedIds(st) == { k \in DOMAIN st : Listed(st[k]) }
RECURSIVE Ascending(_)
Ascending(S) == IF S = {} THEN << >> ELSE LET m == CHOOSE x \in S : \A y \in S : x <= y IN <<m>> \o Ascending(S \ {m})
PageOf(st, after) ==
  LET rest == Ascending({ k \in ListedIds(st) : k > Position(after) })
      ids == SubSeq(rest, 1, IF Len(rest) < PageSize THEN Len(rest) ELSE PageSize)
  IN [edges |-> ids, hasNextPage |-> Len(rest) > PageSize, endCursor |-> IF ids = << >> THEN NoCursor ELSE Cursors[ids[Len(ids)]]]
\* what the destination answers to a document: a page under 'data', or
\* 'errors' alone for a document it cannot parse
Errors == [errors |-> "syntax"]
Answer(st, doc) == IF Read(doc).ok THEN [data |-> PageOf(st, Read(doc).after)] ELSE Errors

\* --- graphql_query as its callers see it: what it returns when its
\* requests are answered by as[1], as[2], ... in turn
RECURSIVE Returned(_)
Returned(as) ==
  IF as = << >> THEN None
  ELSE IF Head(as).status_code = 429 \/ Raises(Head(as)) THEN Returned(Tail(as))
  ELSE Json(Head(as))
Throttled == [status_code |-> 429, json |-> FALSE]
Runs == { [k \in 1..MaxAttempts |-> IF k < n THEN Throttled ELSE a] : n \in {1, 2}, a \in {[status_code |-> 200, json |-> TRUE], Throttled} }

\* --- lines 218-288: what process_products decides for one product
HasMarker(d) == \E k \in DOMAIN d : HasStart(d[k])
\* (gates that let a release date still ahead through)
BranchWithoutFutureGate(product, t) ==
  IF product.metafield = None THEN "no date"
  ELSE IF product.metafield.value = "" THEN "no date"
  ELSE IF ~Valid_date(product.metafield.value) THEN "invalid"
  ELSE IF strptime(product.metafield.value) >= Instant(t.day, t.part) - Instant(ThirtyDays, 0) THEN "new"
  ELSE "old"

Branch(product, t) ==
  IF product.metafield = None THEN "no date"
  ELSE IF product.metafield.value = "" THEN "no date"
  ELSE IF ~Valid_date(product.metafield.value) THEN "invalid"
  ELSE IF strptime(product.metafield.value) > Instant(t.day, t.part) THEN "future"
  ELSE IF strptime(product.metafield.value) >= Instant(t.day, t.part) - Instant(ThirtyDays, 0) THEN "new"
  ELSE "old"

\* lines 250-269
\* (a conversion that leaves the Pre-Order tag in place)
NewReleaseTagsKeepingPreOrder(tags) == IF In("New Release", tags) THEN tags ELSE Append(tags, "New Release")
NewReleaseTags(tags) == LET rest == RemoveTag(tags, "Pre-Order") IN IF In("New Release", rest) THEN rest ELSE Append(rest, "New Release")
\* lines 271-288
OldTags(tags) == RemoveTags(tags, tags_to_remove)

Plan(product, t) ==
  LET branch == Branch(product, t)
      title == product.title
      description == product.descriptionHtml
      tags == product.tags
      new_title == IF StartsWithPrefix(title) THEN remove_preorder_prefix(title) ELSE title
      new_description == IF HasMarker(description) THEN remove_preorder_disclaimer(description) ELSE description
      new_tags == IF branch = "new" THEN NewReleaseTags(tags) ELSE OldTags(tags)
      tag_update == IF branch = "new" THEN In("Pre-Order", tags) \/ ~In("New Release", RemoveTag(tags, "Pre-Order"))
                    ELSE \E k \in DOMAIN tags_to_remove : In(tags_to_remove[k], tags)
  IN IF branch \in {"new", "old"}
       THEN [branch |-> branch, needs_update |-> StartsWithPrefix(title) \/ (HasMarker(description) /\ new_description # description) \/ tag_update,
             title |-> new_title, descriptionHtml |-> new_description, tags |-> new_tags]
       ELSE [branch |-> branch, needs_update |-> FALSE, title |-> title, descriptionHtml |-> description, tags |-> tags]

\* lines 145-182: update_product.  "ok": the mutation went through;
\* "refused": graphql_query gave up or the destination answered userErrors,
\* update_product returns False; "nodata": an answer without 'data', on
\* which line 176 raises KeyError
UpdateOutcomes == {"ok", "refused", "nodata"}
Update(n, id, before, plan, out) == [pass |-> n, id |-> id, before |-> before, branch |-> plan.branch, title |-> plan.title, descriptionHtml |-> plan.descriptionHtml, tags |-> plan.tags, outcome |-> out]
Updated(product, plan) == [product EXCEPT !.title = plan.title, !.descriptionHtml = plan.descriptionHtml, !.tags = plan.tags]

\* lines 210-299: the for loop over the edges of one page
RECURSIVE Walk(_, _, _, _, _)
Walk(ids, outs, t, n, acc) ==
  IF ids = << >> \/ acc.crashed THEN acc
  ELSE LET id == Head(ids)
           plan == Plan(acc.store[id], t)
           out == Head(outs)
           seen == [acc EXCEPT !.processed = @ + 1]
       IN Walk(Tail(ids), Tail(outs), t, n,
               IF ~plan.needs_update THEN seen
               ELSE [seen EXCEPT !.sent = Append(@, Update(n, id, acc.store[id], plan, out)),
                                 !.store = IF out = "ok" THEN [acc.store EXCEPT ![id] = Updated(acc.store[id], plan)] ELSE acc.store,
                                 !.updated = @ + (IF out = "ok" THEN 1 ELSE 0),
                                 !.crashed = (out = "nodata")])

CleanupInit ==
  /\ MainOff
  /\ UpdaterOff
  /\ MaintenanceOff
  /\ DiscoveryOff
  /\ VariantOff
  /\ store \in Stores
  /\ now \in Clock
  /\ cursor = NoCursor
  /\ cpc = "idle"
  /\ pass = 0
  /\ pages = << >>
  /\ updates = << >>
  /\ total_processed = 0
  /\ total_updated = 0

\* lines 196-208: process_products starts
StartPass ==
  /\ cpc \in {"idle", "done", "crashed"}
  /\ pass < MaxPasses
  /\ pass' = pass + 1
  /\ cursor' = NoCursor
  /\ total_processed' = 0
  /\ total_updated' = 0
  /\ cpc' = "fetch"
  /\ UNCHANGED <<main_vars, updater, maintenance, discovery, pricing, store, now, pages, updates>>

\* lines 200-306: one iteration of "while True"
ProcessPage(as, outs) ==
  /\ cpc = "fetch"
  /\ LET doc == Document(cursor)
         got == Returned(as) # None /\ Read(doc).ok
         products_data == PageOf(store, Read(doc).after)
         products == IF got THEN products_data.edges ELSE << >>
         walk == Walk(products, outs, now, pass, [store |-> store, sent |-> << >>, processed |-> 0, updated |-> 0, crashed |-> FALSE])
     IN /\ pages' = Append(pages, [pass |-> pass, cursor |-> cursor, returned |-> Returned(as) # None, parsed |-> Read(doc).ok, edges |-> products, listed |-> ListedIds(store)])
        /\ store' = walk.store
        /\ updates' = updates \o walk.sent
        /\ total_processed' = total_processed + walk.processed
        /\ total_updated' = total_updated + walk.updated
        /\ IF walk.crashed THEN cpc' = "crashed" /\ cursor' = cursor
           ELSE IF products # << >> /\ products_data.hasNextPage THEN cpc' = "fetch" /\ cursor' = products_data.endCursor
           ELSE cpc' = "done" /\ cursor' = cursor
  /\ UNCHANGED <<main_vars, updater, maintenance, discovery, pricing, now, pass>>

CleanupNext ==
  \/ StartPass
  \/ \E as \in Runs, outs \in [1..PageSize -> UpdateOutcomes] : ProcessPage(as, outs)

SpecCleanup == CleanupInit /\ [][CleanupNext]_vars

(***************************************************************************)
(* inventory_master_sync.py: update_default_variant.                       *)
(***************************************************************************)
\* f"{x:.2f}"; the values below carry no third decimal of 5
Format2(mils) ==
  LET c == (mils + 5) \div 10
  IN Decimal(c \div 100) \o <<".", DigitChars[((c \div 10) % 10) + 1], DigitChars[(c % 10) + 1]>>

\* what an item's price and compare_at_price can hold: nothing, a number, a
\* numeral with or without currency symbol and separators, other text
T_USD_20_00 == <<"$", "2", "0", ".", "0", "0">>
T_1_000_5 == <<"1", ",", "0", "0", "0", ".", "5", " ">>
T_NA == <<"N", "/", "A">>
T_1_2_3 == <<"1", ".", "2", ".", "3">>
NoMoney == {PyNone, PyText(<< >>)}
BadMoney == {PyText(T_NA), PyText(T_1_2_3)}
KnownMoney == {PyNum(12500), PyNum(20000), PyText(T_12_50), PyText(T_20_00), PyText(T_USD_20_00), PyText(T_1_000_5)}
MoneyValues == NoMoney \cup BadMoney \cup KnownMoney
BadWeight == {PyText(<<"h", "e", "a", "v", "y">>)}
WeightValues == {PyNone, PyNum(0), PyNum(250000), PyText(<<"2", "5", "0">>)} \cup BadWeight

\* dry stands for the global DRY_RUN of the run that makes the call
Arguments == [dry : BOOLEAN, variant_id : {None, Gid(1)}, price : MoneyValues, compare_at : MoneyValues, weight : WeightValues]

\* lines 667-688
GqlInput(a) ==
  LET price_val == safe_float(a.price)
      compare_val == safe_float(a.compare_at)
      weight_val == safe_float(a.weight)
      price_str == Format2(price_val)
  IN IF compare_val > price_val
       THEN [id |-> a.variant_id, inventoryPolicy |-> "DENY", price |-> price_str, weight |-> weight_val, weightUnit |-> "GRAMS", compareAtPrice |-> Format2(compare_val)]
       ELSE [id |-> a.variant_id, inventoryPolicy |-> "DENY", price |-> price_str, weight |-> weight_val, weightUnit |-> "GRAMS"]

VariantInit ==
  /\ MainOff
  /\ UpdaterOff
  /\ MaintenanceOff
  /\ DiscoveryOff
  /\ CleanupOff
  /\ args \in Arguments
  /\ gql_input = << >>
  /\ vpc = "call"

\* line 653
VariantSkipped ==
  /\ vpc = "call"
  /\ args.dry \/ args.variant_id = None
  /\ vpc' = "returned"
  /\ UNCHANGED <<main_vars, updater, maintenance, discovery, cleanup, args, gql_input>>

\* lines 655-702: the payload is built and posted; userErrors and any
\* exception of the post are printed
update_default_variant(outcome) ==
  /\ vpc = "call"
  /\ ~(args.dry \/ args.variant_id = None)
  /\ gql_input' = GqlInput(args)
  /\ vpc' = outcome
  /\ UNCHANGED <<main_vars, updater, maintenance, discovery, cleanup, args>>

VariantNext ==
  \/ VariantSkipped
  \/ \E outcome \in {"ok", "userErrors", "raise"} : update_default_variant(outcome)

SpecVariant == VariantInit /\ [][VariantNext]_vars

(***************************************************************************)
(* Properties of main().                                                   *)
(***************************************************************************)
WriteOps == {"productCreate", "productVariantUpdate", "inventoryActivate", "metafieldsSet", "productCreateMedia", "tagsAdd"}
Calls == { calls[k] : k \in DOMAIN calls }
Writes == { c \in Calls : c.op \in WriteOps }
Outcomes == { outcomes[k] : k \in DOMAIN outcomes }
Running == pc \in {"loop", "finish", "done"}
CreatedNow == { o \in Outcomes : o.kind = "create" /\ o.shell }
Hosted_(m, s) == Has(m, s) /\ m[s].cloudinary_images # << >>

\* C1: once the shell of an identity is created, its entry is in
\* product_inventory.json before the next item of the queue is processed.
C1_LedgerWrittenAtOnce == (pc = "loop" /\ ~DRY_RUN) => \A o \in CreatedNow : Has(disk, o.sku) /\ disk[o.sku].shopify_id = inventory_map[o.sku].shopify_id

\* C2 as stated: the second of two runs in succession, over the same feeds
\* and the ledger the first run left, issues no destination write.
C2_SecondRunWritesNothing == (run = 2 /\ hist.prev = "done" /\ hist.load /\ Running) => Writes = {}

\* C2 as amended: a run issues no destination write for an identity that the
\* ledger it loaded records with a non-empty hosted image list.
C2_NoWriteForHostedEntry == \A c \in Writes : ~Hosted_(loaded, c.sku)

C2_Witness == run = 2 /\ hist.prev = "done" /\ hist.load /\ pc = "done" /\ Writes = {} /\ \E o \in Outcomes : o.kind = "heal" /\ Hosted_(loaded, o.sku) /\ loaded[o.sku].shopify_status = "DRAFT_CREATED" /\ all_rows[o.pos].images_source # << >>

C3_Untouched(s) == /\ \A c \in Calls : c.sku # s
                   /\ Has(inventory_map, s) /\ inventory_map[s] = loaded[s]
                   /\ Has(disk, s) /\ disk[s] = loaded[s]
C4_Drafted(o) == /\ o.kind = "create"
                 /\ Has(inventory_map, o.sku)
                 /\ inventory_map[o.sku].shopify_status = "DRAFT_CREATED"
                 /\ inventory_map[o.sku].shopify_id # None
\* C4 as stated: an item with images whose identity the destination does not
\* list is created, and the ledger then holds its DRAFT_CREATED entry with
\* a shopify_id.
C4_AbsentFromShopIsCreated == \A o \in Outcomes : (o.kind # "unresolved" /\ all_rows[o.pos].images_source # << >> /\ o.live = {}) => C4_Drafted(o)

C4_Recorded(o) == /\ Has(inventory_map, o.sku)
                  /\ inventory_map[o.sku].shopify_status = "DRAFT_CREATED"
                  /\ inventory_map[o.sku].shopify_id # None
                  /\ ((pc = "done" /\ ~DRY_RUN) => (Has(disk, o.sku) /\ disk[o.sku] = inventory_map[o.sku]))
\* C4 as amended: an item with images that is reached while the ledger has
\* no entry for its identity takes the create branch; once the shell is
\* created the ledger holds the DRAFT_CREATED entry with the id, and so
\* does the file after the save of a run with DRY_RUN off.
C4_CreateRecordsDraft == \A o \in Outcomes : (o.kind # "unresolved" /\ all_rows[o.pos].images_source # << >> /\ o.seen = {}) => (o.kind = "create" /\ (o.shell => C4_Recorded(o)))

C4_Witness == pc = "done" /\ ~DRY_RUN /\ \E o \in CreatedNow : all_rows[o.pos].images_source # << >> /\ Has(disk, o.sku) /\ disk[o.sku].shopify_status = "DRAFT_CREATED" /\ disk[o.sku].shopify_id = <<"gid", Len(shop)>>

Pid(id) == id[2]
Missing(s, m) == LET p == shop[Pid(m[s].shopify_id)] IN (IF p.sku = NoSku THEN {"productVariantUpdate"} ELSE {}) \cup (IF ~p.stock THEN {"inventoryActivate"} ELSE {}) \cup (IF ~p.meta THEN {"metafieldsSet"} ELSE {}) \cup (IF p.media = << >> /\ m[s].cloudinary_images # << >> THEN {"productCreateMedia"} ELSE {})
C5_Resumed(o) == /\ o.kind = "heal"
                 /\ \A c \in Calls : (c.sku = o.sku) => (c.op # "productCreate")
                 /\ \A op \in Missing(o.sku, loaded) : \E d \in Calls : d.sku = o.sku /\ d.op = op
\* C5: after a shell whose later step failed, the ledger holds the shell's
\* id, a later run creates no second shell and issues the step that failed.
C5_ResumesAtFailedStep == \A o \in Outcomes : (o.kind # "unresolved" /\ Has(loaded, o.sku) /\ loaded[o.sku].shopify_status = "DRAFT_CREATED" /\ loaded[o.sku].shopify_id # None) => C5_Resumed(o)

Sent == { sent[k] : k \in DOMAIN sent }
Published(r) == r.status = "ACTIVE" /\ safe_float(r.price) > 0
\* C6: no price or compare-at-price mutation is sent, by the loop of main or
\* by the updater, for a destination item that is published at a price above
\* zero.
C6_PublishedPriceUntouched == \A r \in Sent : (r.field = "compareAtPrice") => ~Published(r)

C7_Superseded(k) == \E j \in DOMAIN all_rows : j > k /\ all_rows[j].sku = all_rows[k].sku /\ all_rows[j].origin # all_rows[k].origin
\* C7: of two records of one identity from two adapters, the one applied
\* first causes no destination write; only the one applied last is acted on.
C7_LastAdapterWins == \A c \in Writes : ~C7_Superseded(c.pos)

C8_restricted_to(it) == {it.vendor}
C8_UnsafeVendor(o) == o.live # {} /\ o.live \cap C8_restricted_to(all_rows[o.pos]) = {}
\* C8: a record allowed for its own vendor only, whose identity the
\* destination lists under another vendor, causes no destination write.
C8_UnsafeVendorSkipped == (hist.load /\ ~DRY_RUN) => \A o \in Outcomes : C8_UnsafeVendor(o) => ~\E c \in Writes : c.pos = o.pos

Cents(mils) == (mils + 5) \div 10
SameMoney(a, b) == Cents(safe_float(a)) = Cents(safe_float(b))
Compared == { compared[k] : k \in DOMAIN compared }
\* C9: a compare-at or cost value is sent exactly when it differs from the
\* live value at two decimal digits.
C9_TwoDecimalResolution == ~dry_run => \A c \in Compared : c.sent <=> ~SameMoney(c.target, c.current)

FourOutcomes == {"skip_ignored", "skip_no_image", "create", "heal"}
\* C10 as stated: every item of the queue gets one of the four outcomes,
\* however many items were processed before it.
C10_EveryItemDecided == (pc = "done") => \A k \in DOMAIN all_rows : (~all_rows[k].is_skeleton) => \E o \in Outcomes : o.pos = k /\ o.kind \in FourOutcomes

C10_Expected(it, seen, reset) ==
  IF \E e \in seen : e.shopify_status = "PERMANENTLY_IGNORED" /\ ~reset THEN "skip_ignored"
  ELSE IF seen # {} THEN "heal"
  ELSE IF it.vendor = "Asmodee" /\ it.images_source = << >> THEN "skip_no_image"
  ELSE "create"
\* C10 as amended: for an item that is reached and resolved, the branch is
\* the one outcome that the item, the ledger entry found and the reset flag
\* determine.
C10_DecisionIsFunction == /\ \A o \in Outcomes : (o.kind # "unresolved") => (o.kind = C10_Expected(all_rows[o.pos], o.seen, RESET_IGNORED_ITEMS))
                          /\ ((InLoop /\ ~LimitReached) => Decision(item, inventory_map, RESET_IGNORED_ITEMS) \in FourOutcomes)
                          /\ (pc = "loop" => Len(outcomes) = i - 1)

C10_Witness == pc = "done" /\ Len(all_rows) = 2 /\ { o.kind : o \in Outcomes } = {"create", "heal"} /\ all_rows[1] = all_rows[2] /\ Len(outcomes) = 2

(***************************************************************************)
(* Error handling of main().                                               *)
(***************************************************************************)
FailedCalls == { c \in Calls : ~c.ok }
C11_LimitStop == TEST_MODE /\ successful_drafts_count >= TEST_LIMIT
C11_AllProcessed == \A k \in DOMAIN all_rows : \E o \in Outcomes : o.pos = k

\* C11: a remote call that fails in an iteration of the loop (page fetch of
\* a skeleton, upload, productCreate, a later step) does not stop the loop:
\* the loop goes on to the next item, and it ends only with every item of
\* the queue processed or at the TEST_LIMIT of successful uploads.
C11_FailureDoesNotStopLoop == \A c \in FailedCalls : \/ (pc = "loop" /\ i > c.pos /\ Len(outcomes) = i - 1)
                                                     \/ (pc \in {"finish", "done"} /\ (C11_AllProcessed \/ C11_LimitStop))

C11_Witness == pc = "done" /\ Len(all_rows) = 2 /\ (\E c \in FailedCalls : c.pos = 1 /\ c.op = "productCreate") /\ (\E d \in Calls : d.pos = 2 /\ d.op = "productCreate" /\ d.ok)

\* C12: a run that could not read an existing ledger processes no item and
\* issues no destination write.
C12_UnreadableLedgerAborts == (Running /\ ~hist.load) => (outcomes = << >> /\ Writes = {})

CreateOrder == <<"productCreate", "productVariantUpdate", "inventoryActivate", "metafieldsSet", "productCreateMedia">>
Rank(op) == CHOOSE r \in DOMAIN CreateOrder : CreateOrder[r] = op
CreateSteps == { k \in DOMAIN calls : calls[k].op \in WriteOps /\ \E o \in Outcomes : o.pos = calls[k].pos /\ o.kind = "create" }
Shelled(k) == \E j \in CreateSteps : j < k /\ calls[j].pos = calls[k].pos /\ calls[j].op = "productCreate" /\ calls[j].ok

\* C13: the requests of a Create are issued in the order productCreate,
\* productVariantUpdate, inventoryActivate, metafieldsSet,
\* productCreateMedia, and each of the last four only after the
\* productCreate of the same item has returned an id.
C13_CreateStepsInOrder == /\ \A j, k \in CreateSteps : (j < k /\ calls[j].pos = calls[k].pos) => Rank(calls[j].op) < Rank(calls[k].op)
                          /\ \A k \in CreateSteps : (calls[k].op # "productCreate") => Shelled(k)

C13_Witness == \E p \in DOMAIN all_rows : { calls[k].op : k \in { j \in CreateSteps : calls[j].pos = p } } = { CreateOrder[r] : r \in DOMAIN CreateOrder }

(***************************************************************************)
(* Availability and images.                                                *)
(***************************************************************************)
NeverCreated(o) == o.kind # "unresolved" /\ o.seen = {} /\ o.live = {}

\* C14: an item whose adapter flags it unavailable and which has no ledger
\* entry and no product in the destination causes no destination write and
\* gets no DRAFT_CREATED entry.
C14_UnavailableIsNoOp == hist.load => \A o \in Outcomes : (NeverCreated(o) /\ ~all_rows[o.pos].active_status) => (o.kind # "create" /\ ~\E c \in Writes : c.pos = o.pos)

NoImage(o) == o.kind # "unresolved" /\ o.seen = {} /\ all_rows[o.pos].images_source = << >>
Quarantine(o) == Has(inventory_map, o.sku) /\ inventory_map[o.sku].shopify_status = "PERMANENTLY_IGNORED"

\* C15: an item without images and without a ledger entry is not created;
\* an available one leaves no ledger entry and no destination write, an
\* unavailable one gets a PERMANENTLY_IGNORED entry.
C15_NoImageNeverCreated == (hist.load /\ pc = "loop") => \A o \in Outcomes : NoImage(o) => /\ o.kind # "create"
                                                                                            /\ ~\E c \in Writes : c.pos = o.pos
                                                                                            /\ (IF all_rows[o.pos].active_status THEN ~Has(inventory_map, o.sku) ELSE Quarantine(o))

(***************************************************************************)
(* Images.                                                                 *)
(***************************************************************************)
Healing == InLoop /\ ~LimitReached /\ Decision(item, inventory_map, RESET_IGNORED_ITEMS) = "heal"
NewCalls == { calls'[k] : k \in (Len(calls) + 1)..Len(calls') }

\* C16: on the path for an identity that has a ledger entry,
\* productCreateMedia is issued only for a product that has no image in the
\* destination.
C16_NoAttachOverImages == [][(Healing /\ \E c \in NewCalls : c.op = "productCreateMedia") => shop[Pid(inventory_map'[sku].shopify_id)].media = << >>]_vars

Uploads == { c \in Calls : c.op = "upload" }
SameImages(m, s, e) == Has(m, s) /\ m[s].cloudinary_images = e.cloudinary_images

C18_NoEntryDeleted == Running => (DOMAIN loaded \subseteq DOMAIN inventory_map /\ DOMAIN loaded \subseteq DOMAIN disk)

C18_Witness == pc = "done" /\ run = 2 /\ loaded # << >> /\ (\E c \in Calls : c.op = "write_ledger") /\ DOMAIN disk # DOMAIN loaded /\ DOMAIN loaded \subseteq DOMAIN disk

(***************************************************************************)
(* The rate limit of the image host.                                       *)
(***************************************************************************)
\* source url lists of one call: valid urls and an invalid one, no
\* duplicates (line 540 makes the list a set), in every order
RateUrls == URLS \cup {"http://src/2.jpg", ""}
RateLists == { l \in UNION { [1..n -> RateUrls] : n \in 0..3 } : \A j, k \in DOMAIN l : l[j] = l[k] => j = k }
ValidOnly(l) == SelectSeq(l, Valid)
FirstRate(l, ups) == { k \in DOMAIN l : Valid(l[k]) /\ ups[k] = "rate" /\ \A j \in 1..(k - 1) : ~(Valid(l[j]) /\ ups[j] = "rate") }
Tried(l, k) == Cardinality({ j \in 1..k : Valid(l[j]) })
From(l, k) == ValidOnly(SubSeq(l, k, Len(l)))
Ending(s, n) == SubSeq(s, Len(s) - n + 1, Len(s))

\* inside one call: with the flag set on entry nothing is uploaded and the
\* valid urls come back as they are; when the k-th url is the first to meet
\* the rate limit, the urls up to k are the only ones tried and the valid
\* urls from k on come back as they are, with the flag set
C19_WithinOneCall ==
  \A l \in RateLists : \A ups \in [DOMAIN l -> UploadOutcomes] :
    /\ LET r == process_and_upload_images("X1", l, ups, TRUE, FALSE)
       IN r.rate /\ r.calls = << >> /\ r.urls = ValidOnly(l)
    /\ \A k \in FirstRate(l, ups) :
         LET r == process_and_upload_images("X1", l, ups, FALSE, FALSE)
         IN r.rate /\ Len(r.calls) = Tried(l, k) /\ Ending(r.urls, Len(From(l, k))) = From(l, k)

Stored == inventory_map'[sku].cloudinary_images
Uploading == \/ Decision(item, inventory_map, RESET_IGNORED_ITEMS) = "heal" /\ NeedsBackfill(existing_product, item)
             \/ Decision(item, inventory_map, RESET_IGNORED_ITEMS) = "create" /\ Len(outcomes') > Len(outcomes) /\ outcomes'[Len(outcomes')].shell
C19_StaysSet == RATE_LIMIT_HIT' /\ pc' \in {"loop", "finish"} /\ ~(\E c \in NewCalls : c.op = "upload")
C19_Unchanged == (i' = i + 1 /\ Uploading) => Stored = ValidOnly(item.images_source)
C19_FirstHit == (~RATE_LIMIT_HIT /\ RATE_LIMIT_HIT') => (pc' = "loop" /\ i' = i + 1 /\ C19_WithinOneCall)
C19_AfterHit == (RATE_LIMIT_HIT /\ pc = "loop" /\ pc' # "crashed") => (C19_StaysSet /\ C19_Unchanged)

\* C19: the step on which the image host reports a rate limit finishes its
\* item and the loop goes on; from then on, in every step of the run, the
\* flag stays set, no upload is attempted, and an item that stores images
\* stores its valid source urls unchanged.
C19_RateLimitSticks == [][C19_FirstHit /\ C19_AfterHit /\ ((RATE_LIMIT_HIT /\ pc = "finish" /\ pc' = "done") => RATE_LIMIT_HIT')]_vars

C19_Witness == pc = "done" /\ RATE_LIMIT_HIT /\ Len(all_rows) = 2 /\ (\E c \in Uploads : c.pos = 1 /\ ~c.ok) /\ ~(\E c \in Uploads : c.pos = 2) /\ (\E o \in CreatedNow : o.pos = 2 /\ all_rows[2].images_source # << >> /\ Has(inventory_map, o.sku) /\ inventory_map[o.sku].cloudinary_images = all_rows[2].images_source)

(***************************************************************************)
(* Properties of graphql_query.                                            *)
(***************************************************************************)
RateLimited(a) == a # ConnectionError /\ a.status_code = 429
ServerError(a) == a # ConnectionError /\ a.status_code >= 500
ClientError(a) == a # ConnectionError /\ a.status_code >= 400 /\ a.status_code < 500 /\ a.status_code # 429
Retryable(a) == RateLimited(a) \/ ServerError(a) \/ a = ConnectionError
Retried == { k \in DOMAIN answers : k < Len(answers) }

C20_Bounded == Len(answers) <= MaxAttempts
C20_GivesUp == (mpc = "returned" /\ Len(answers) = MaxAttempts /\ Raises(answers[MaxAttempts])) => returned = None
C20_RetriedOnlyWhenRetryable == \A k \in Retried : Retryable(answers[k]) /\ ~ClientError(answers[k])

\* C20: one call of graphql_query posts at most 3 requests and, when the
\* last of them fails too, returns None; a request is followed by another
\* only when it met a rate limit (429), a server error or a network
\* failure, never when it met a client error (4xx other than 429).
C20_BoundedRetry == mpc # "off" => (C20_Bounded /\ C20_GivesUp /\ C20_RetriedOnlyWhenRetryable)

(***************************************************************************)
(* Properties of the page loop.                                            *)
(***************************************************************************)
Requests == { requests[k] : k \in DOMAIN requests }
RequestsOf(n) == { k \in DOMAIN requests : requests[k].page = n }
FailedPages == { r.page : r \in { q \in Requests : q.answer # "200" } }
Fetched(n) == \E r \in Requests : r.page = n /\ r.answer = "200"
Found == { found_items[k] : k \in DOMAIN found_items }

\* C21: when the loop has returned, every page whose request failed was
\* requested more than once, every page of the source was requested, and
\* the items of every page that was fetched are in the result.
C21_OnlyFailedPageGivenUp ==
  dpc = "returned" =>
    /\ \A n \in FailedPages \cap DOMAIN source_pages : Cardinality(RequestsOf(n)) > 1
    /\ \A n \in DOMAIN source_pages : RequestsOf(n) # {}
    /\ \A n \in DOMAIN source_pages : Fetched(n) => \A k \in DOMAIN PageItems(source_pages[n], source_label) : PageItems(source_pages[n], source_label)[k] \in Found

(***************************************************************************)
(* Properties of the pre-order cleanup.                                    *)
(***************************************************************************)
\* graphql_query step by step and graphql_query as its callers see it agree
PostAgreesWithReturned == mpc = "returned" => returned = Returned(answers)

PassPages(n) == SelectSeq(pages, LAMBDA r : r.pass = n)
RECURSIVE Edges(_)
Edges(ps) == IF ps = << >> THEN << >> ELSE Head(ps).edges \o Edges(Tail(ps))
LastCursor(r) == IF r.edges = << >> THEN NoCursor ELSE Cursors[r.edges[Len(r.edges)]]
Answered(n) == \A k \in DOMAIN pages : pages[k].pass = n => pages[k].returned

\* C22: when a pass in which every page request was answered has ended,
\* its first request carried no cursor, every later one the end cursor of
\* the page before it, and the pages it processed are, in order and once
\* each, all the products the destination listed.
C22_EveryPageOnce ==
  (cpc = "done" /\ Answered(pass)) =>
    LET ps == PassPages(pass)
    IN /\ ps # << >>
       /\ ps[1].cursor = NoCursor
       /\ \A k \in 2..Len(ps) : ps[k].cursor = LastCursor(ps[k - 1])
       /\ Edges(ps) = Ascending(ps[1].listed)

(***************************************************************************)
(* Properties of update_default_variant.                                   *)
(***************************************************************************)
Built == vpc \in {"ok", "userErrors", "raise"}
SentCompareAt == "compareAtPrice" \in DOMAIN gql_input

\* C23: a payload built from a known price and a known compare-at price
\* carries no compare-at price below its price, and when the source
\* compare-at price is below the source price it carries the larger of the
\* two, the price, as compare-at price.
C23_LargerWinsAsCompareAt ==
  (Built /\ args.price \in KnownMoney /\ args.compare_at \in KnownMoney) =>
    /\ SentCompareAt => FloatOf(gql_input.compareAtPrice) >= FloatOf(gql_input.price)
    /\ safe_float(args.compare_at) < safe_float(args.price) => (SentCompareAt /\ gql_input.compareAtPrice = Format2(safe_float(args.price)))

Money == {args.price, args.compare_at}
\* C24: for every price, compare-at price and weight, parsable or not,
\* safe_float gives a number, zero for the unparsable ones, and the payload
\* is built with it: an unparsable price is sent as 0.00, an unparsable
\* weight as 0.
C24_SafeFloatTotal ==
  /\ \A v \in Money \cup {args.weight} : safe_float(v) \in Nat /\ (v \in BadMoney \cup BadWeight => safe_float(v) = 0)
  /\ Built => /\ args.price \in BadMoney \cup NoMoney => gql_input.price = T_0_00
              /\ args.weight \in BadWeight => gql_input.weight = 0
              /\ args.compare_at \in BadMoney => ~SentCompareAt

C24_Witness == vpc = "ok" /\ args.price \in BadMoney /\ args.weight \in BadWeight /\ args.compare_at = PyText(T_USD_20_00) /\ SentCompareAt /\ gql_input.compareAtPrice = T_20_00

(***************************************************************************)
(* Limits of one run of main().                                            *)
(***************************************************************************)
Shells == { c \in Calls : c.op = "productCreate" }

\* C25: in one run, after a productCreate for an identity succeeded, no
\* later productCreate is issued for that identity, and every later
\* occurrence of it that is resolved takes the existing-entry path.
C25_OneShellPerIdentity ==
  Running => \A c \in { d \in Shells : d.ok } :
    /\ \A d \in Shells : (d.sku = c.sku /\ d.pos >= c.pos) => d = c
    /\ \A o \in Outcomes : (o.sku = c.sku /\ o.pos > c.pos) => o.kind \in {"heal", "unresolved"}

C25_Witness == pc = "done" /\ Len(all_rows) = 2 /\ all_rows[1].sku = all_rows[2].sku /\ (\E c \in Shells : c.ok /\ c.pos = 1) /\ (\E o \in Outcomes : o.pos = 2 /\ o.kind = "heal")

ItemCalls == { c \in Calls : c.sku # NoSku }
HealedAt(p) == \E o \in Outcomes : o.pos = p /\ o.kind = "heal"
Successes == { c \in Calls : c.ok /\ (c.op = "productCreate" \/ (c.op = "productCreateMedia" /\ HealedAt(c.pos))) }
C26_WithinLimit == (TEST_MODE /\ Running) => (successful_drafts_count <= TEST_LIMIT /\ Cardinality(Successes) <= successful_drafts_count)
C26_StopsAtLimit == (TEST_MODE /\ pc = "loop" /\ successful_drafts_count >= TEST_LIMIT) => (pc' \in {"finish", "crashed"} /\ NewCalls = {} /\ outcomes' \in {outcomes, << >>})

\* C26: with TEST_MODE on, the creations and backfills that succeeded in a
\* run are no more than the counter, which never exceeds TEST_LIMIT; once
\* it has reached TEST_LIMIT the next step leaves the loop and no remote
\* call is made for a later item.
C26_TestLimit == []C26_WithinLimit /\ [][C26_StopsAtLimit]_vars

C26_Witness == TEST_MODE /\ pc = "done" /\ Len(all_rows) = 2 /\ Len(outcomes) = 1 /\ successful_drafts_count = TEST_LIMIT /\ (\E c \in Successes : c.pos = 1) /\ ~(\E c \in ItemCalls : c.pos > 1)

Outward == WriteOps \cup {"upload", "send_email", "write_ledger"}
C27_NothingSent == (DRY_RUN /\ Running) => \A c \in Calls : c.op \notin Outward
C27_NothingChanged == DRY_RUN => (disk' = disk /\ shop' = shop)

\* C27: with DRY_RUN on, a run of main makes no mutating call to the
\* destination, uploads nothing to the image host, sends no notification
\* and leaves the ledger file and the destination as they were; the file
\* it writes is the dry-run report.
C27_DryRunIsDry == []C27_NothingSent /\ [][C27_NothingChanged]_vars

C27_Witness == DRY_RUN /\ pc = "done" /\ new_items_added # {} /\ (\E c \in Calls : c.op = "write_report") /\ (\E o \in Outcomes : o.kind = "create" /\ all_rows[o.pos].images_source # << >> /\ Valid(all_rows[o.pos].images_source[1])) /\ (\E o \in Outcomes : o.kind = "heal")

(***************************************************************************)
(* The pre-order cleanup of process_products.                              *)
(***************************************************************************)
Updates == { updates[k] : k \in DOMAIN updates }
Walked(n) == UNION { { p.edges[k] : k \in DOMAIN p.edges } : p \in { q \in { pages[k] : k \in DOMAIN pages } : q.pass = n } }
ReleaseDay(product) == product.metafield.value
HasDate(product) == product.metafield # None /\ Valid_date(ReleaseDay(product))
Ahead(product) == HasDate(product) /\ DayOf[ReleaseDay(product)] > now.day
KeptAsPreOrder(product) == ~HasDate(product) \/ Ahead(product)
C28_NoUpdateSent == \A u \in Updates : ~KeptAsPreOrder(u.before)
C28_LeftAsItWas == \A id \in DOMAIN store : KeptAsPreOrder(store[id]) => store'[id] = store[id]

\* C28: process_products sends no update for a product whose release date
\* is ahead, missing or not a date, and a pass leaves its title,
\* description and tags in the destination as they were.
C28_UnreleasedUntouched == []C28_NoUpdateSent /\ [][C28_LeftAsItWas]_vars

C28_Witness == cpc = "done" /\ pass = 1 /\ \E id \in Walked(1) : KeptAsPreOrder(store[id]) /\ StartsWithPrefix(store[id].title) /\ In("Pre-Order", store[id].tags) /\ HasMarker(store[id].descriptionHtml) /\ ~(\E u \in Updates : u.id = id)

Age(product) == Instant(now.day, now.part) - strptime(ReleaseDay(product))
ReleasedWithinThirtyDays(product) == HasDate(product) /\ Age(product) >= 0 /\ Age(product) <= Instant(ThirtyDays, 0)
ReleasedLongAgo(product) == HasDate(product) /\ Age(product) > Instant(ThirtyDays, 0)
Named == {"Pre-Order", "Pre-Order Reminder Sent", "New Release", "New Release Reminder Sent"}
Other(tags, named) == SelectSeq(tags, LAMBDA tag : tag \notin named)
C29_NewRelease(u) == /\ In("New Release", u.tags)
                     /\ ~In("Pre-Order", u.tags)
                     /\ Other(u.tags, {"Pre-Order", "New Release"}) = Other(u.before.tags, {"Pre-Order", "New Release"})
C29_Plain(u) == /\ \A tag \in Named : ~In(tag, u.tags)
                /\ u.tags = Other(u.before.tags, Named)

\* C29: an update sent for a product released within the last 30 days
\* carries a tag list with 'New Release' and without 'Pre-Order'; an update
\* sent for a product released more than 30 days ago carries none of
\* 'Pre-Order', 'Pre-Order Reminder Sent', 'New Release', 'New Release
\* Reminder Sent'; in both every other tag of the product is kept.
C29_TagsOfAnUpdate == \A u \in Updates : /\ ReleasedWithinThirtyDays(u.before) => C29_NewRelease(u)
                                         /\ ReleasedLongAgo(u.before) => C29_Plain(u)

C29_Witness == /\ \E u \in Updates : ReleasedWithinThirtyDays(u.before) /\ u.before.tags = <<"Pre-Order", "Pre-Order Reminder Sent", "Hot", "New Release", "New Release Reminder Sent">> /\ u.outcome = "ok" /\ store[u.id].tags = <<"Pre-Order Reminder Sent", "Hot", "New Release", "New Release Reminder Sent">>
               /\ \E u \in Updates : ReleasedLongAgo(u.before) /\ u.before.tags = <<"Pre-Order", "Hot">> /\ u.tags = <<"Hot">>

Changes(u) == u.title # u.before.title \/ u.descriptionHtml # u.before.descriptionHtml \/ u.tags # u.before.tags
OfPass(n) == { u \in Updates : u.pass = n }
C30_OnlyWhenChanged == \A u \in Updates : Changes(u)

\* C30: the cleanup is idempotent: an update is sent only when the title,
\* the description or the tags would change, and after a pass that read
\* its pages and whose updates all succeeded, the second pass at the same
\* date sends no update for a product the first pass went through.
C30_Idempotent == /\ C30_OnlyWhenChanged
                  /\ (pass = 2 /\ Answered(1) /\ \A u \in OfPass(1) : u.outcome = "ok") => \A u \in OfPass(2) : u.id \notin Walked(1)

====
